---- MODULE Spec2Model ----
(***************************************************************************)
(* Model of src/pytest_plugin/plugin.py: the class PytestHooksPlugin, the  *)
(* shared instance pytest_hooks_plugin and the module-level hook functions *)
(* that forward to it.                                                     *)
(*                                                                         *)
(* A class method is an operator                                           *)
(*     PytestHooksPlugin_<method>(self, world, <arguments>)                *)
(* that yields the outcome of one call: the instance and the framework     *)
(* objects after the call, the value returned, the line printed, whether   *)
(* the flag was read, whether an exception left the method and which       *)
(* command-line options it read.  A module-level function is an action of  *)
(* the same name as in the source.                                         *)
(***************************************************************************)
EXTENDS Integers, Sequences, FiniteSets, TLC

VARIABLES
    pytest_hooks_plugin,  \* attributes of the shared instance (line 159)
    twin,                 \* a second instance, equal but for allow_hook_verbose
    world,                \* state of the framework objects handed to the hooks
    twin_world,           \* the framework objects of the twin's run
    call,                 \* record of the last module-level hook invocation
    consumed,             \* command-line options whose value a handler has read
    constructed,          \* the instance as __init__ left it
    registry,             \* host plugin manager: registered name -> plugin
    pre_registry,         \* the registry just before the adapter was registered
    reg_phase             \* "never" | "registered" | "unregistered"

vars == <<pytest_hooks_plugin, twin, world, twin_world, call, consumed,
          constructed, registry, pre_registry, reg_phase>>

----------------------------------------------------------------------------
(* Bounds *)

\* exit statuses range over 0..MaxExit
MaxExit == 2
\* the collected item list has at most MaxItems entries
MaxItems == 2

----------------------------------------------------------------------------
(* Values *)

\* Python's None, returned by every handler
None == "None"
\* what a call yields when an exception leaves it instead of a value
Raised == "<raised>"

SessionIds == {"session_1", "session_2"}
ItemIds == {"item_a", "item_b"}
ReportIds == {"report_1", "report_2"}
ExitStatuses == 0 .. MaxExit
NodeIdStrs == {"tests/test_x.py::test_a"}
Locations == {"tests/test_x.py:3:test_a"}
Whens == {"setup", "call"}
FixtureNames == {"tmp_path"}
FunctionNames == {"test_a"}

\* a file path is <<directory, file name>>, the file name a tuple of characters
FileNames ==
    { <<"a", ".", "p", "y">>,
      <<".", "p", "y">>,
      <<"a", ".", "p", "y", "c">>,
      <<"a", ".", "t", ".", "p", "y">>,
      <<"a", "p", "y">> }
Dirs == {"tests", "pkg.py"}
FilePaths == { <<d, n>> : d \in Dirs, n \in FileNames }

\* index of the last "." in a name, 0 when there is none (str.rfind, 1-based)
RECURSIVE RFindDot(_, _)
RFindDot(name, i) ==
    IF i = 0 THEN 0
    ELSE IF name[i] = "." THEN i
    ELSE RFindDot(name, i - 1)

\* file_path.suffix (line 57): the last dot-component of the final path
\* component, empty when the only dot leads or ends the name
suffix(file_path) ==
    LET name == file_path[2]
        i == RFindDot(name, Len(name))
    IN  IF 1 < i /\ i < Len(name) THEN SubSeq(name, i, Len(name)) ELSE <<>>

\* str(exitstatus), str(len(items)) inside an f-string
str(n) == ToString(n)

\* item.nodeid, node.nodeid
nodeid_of(w, item) == IF item \in ItemIds THEN w.item[item].nodeid ELSE "?"

----------------------------------------------------------------------------
(* PytestHooksPlugin.__init__ (lines 17-20) *)

PytestHooksPlugin_init(verbose) ==
    [allow_hook_verbose |-> verbose, mytool |-> "MyTool()"]

\* self.<attr> = value
SetAttr(self, attr, value) ==
    [a \in DOMAIN self \cup {attr} |-> IF a = attr THEN value ELSE self[a]]

----------------------------------------------------------------------------
(* The statement `if self.allow_hook_verbose: print(f"...")`.  fields are  *)
(* the pieces of the formatted line, objs the objects whose attribute the  *)
(* f-string reads: reading an attribute of None raises AttributeError.     *)

Emit(self, fields, objs) ==
    IF ~self.allow_hook_verbose
    THEN [out |-> <<>>, raised |-> FALSE, readFlag |-> TRUE]
    ELSE IF None \in objs
    THEN [out |-> <<>>, raised |-> TRUE, readFlag |-> TRUE]
    ELSE [out |-> <<fields>>, raised |-> FALSE, readFlag |-> TRUE]

\* a body without a print statement
Silent == [out |-> <<>>, raised |-> FALSE, readFlag |-> FALSE]

\* The outcome of one method call.
Outcome(method, args, self, w, p, ret, optreads) ==
    [method |-> method, args |-> args, self |-> self, world |-> w,
     out |-> p.out, raised |-> p.raised, readFlag |-> p.readFlag,
     ret |-> IF p.raised THEN Raised ELSE ret,
     optreads |-> optreads]

----------------------------------------------------------------------------
(* Configuration hooks *)

\* the option registered at lines 26-31
MyOption ==
    [name |-> "--myoption", action |-> "store", default |-> "myoption_default"]

\* parser.addoption(...) of the host parser: the option joins the parser's
\* options
parser_addoption(w, opt) == [w EXCEPT !.parser = @ \cup {opt}]

\* variant: registers the option as a flag
AddOption_StoreTrue(self, w, parser) ==
    Outcome("pytest_addoption", <<parser>>, self,
            parser_addoption(w, [MyOption EXCEPT !.action = "store_true"]),
            Silent, None, {})

PytestHooksPlugin_pytest_addoption(self, w, parser) ==
    Outcome("pytest_addoption", <<parser>>, self,
            parser_addoption(w, MyOption), Silent, None, {})

\* variant: keeps the configuration on the instance
Configure_StoresConfig(self, w, config) ==
    Outcome("pytest_configure", <<config>>, SetAttr(self, "config", config), w,
            Emit(self, <<"Plugin configured">>, {}), None, {})

PytestHooksPlugin_pytest_configure(self, w, config) ==
    Outcome("pytest_configure", <<config>>, self, w,
            Emit(self, <<"Plugin configured">>, {}), None, {})

\* variant: switches the flag off on the way out
Unconfigure_ResetsFlag(self, w, config) ==
    Outcome("pytest_unconfigure", <<config>>,
            [self EXCEPT !.allow_hook_verbose = FALSE], w,
            Emit(self, <<"Plugin unconfigured">>, {}), None, {})

PytestHooksPlugin_pytest_unconfigure(self, w, config) ==
    Outcome("pytest_unconfigure", <<config>>, self, w,
            Emit(self, <<"Plugin unconfigured">>, {}), None, {})

----------------------------------------------------------------------------
(* Session hooks *)

PytestHooksPlugin_pytest_sessionstart(self, w, session) ==
    LET p == Emit(self, <<"Session started">>, {})
    IN  Outcome("pytest_sessionstart", <<session>>,
                IF p.raised THEN self ELSE SetAttr(self, "session", session),
                w, p, None, {})

\* variant: `if self.allow_hook_verbose and exitstatus:`
SessionFinish_OnlyNonZero(self, w, session, exitstatus) ==
    Outcome("pytest_sessionfinish", <<session, exitstatus>>, self, w,
            IF exitstatus # 0
            THEN Emit(self, <<"Session finished with exit status: ", str(exitstatus)>>, {})
            ELSE [out |-> <<>>, raised |-> FALSE, readFlag |-> TRUE],
            None, {})

PytestHooksPlugin_pytest_sessionfinish(self, w, session, exitstatus) ==
    Outcome("pytest_sessionfinish", <<session, exitstatus>>, self, w,
            Emit(self, <<"Session finished with exit status: ", str(exitstatus)>>, {}),
            None, {})

----------------------------------------------------------------------------
(* Collection hooks *)

\* variant: `if str(file_path).endswith('py'):`
CollectFile_EndsWithPy(self, w, file_path, parent) ==
    Outcome("pytest_collect_file", <<file_path, parent>>, self, w,
            IF /\ Len(file_path[2]) >= 2
               /\ SubSeq(file_path[2], Len(file_path[2]) - 1, Len(file_path[2])) = <<"p", "y">>
            THEN Emit(self, <<"Collecting file: ", file_path>>, {})
            ELSE Silent,
            None, {})

PytestHooksPlugin_pytest_collect_file(self, w, file_path, parent) ==
    Outcome("pytest_collect_file", <<file_path, parent>>, self, w,
            IF suffix(file_path) = <<".", "p", "y">>
            THEN Emit(self, <<"Collecting file: ", file_path>>, {})
            ELSE Silent,
            None, {})

PytestHooksPlugin_pytest_generate_tests(self, w, metafunc) ==
    Outcome("pytest_generate_tests", <<metafunc>>, self, w,
            Emit(self, <<"Generating tests for: ", metafunc>>, {metafunc}),
            None, {})

\* items.reverse()
RECURSIVE Reverse(_)
Reverse(l) == IF l = <<>> THEN <<>> ELSE Append(Reverse(Tail(l)), Head(l))

\* variant: reorders the collected items in place
ModifyItems_Reverses(self, w, session, config, items) ==
    Outcome("pytest_collection_modifyitems", <<session, config, items>>, self,
            [w EXCEPT !.items = Reverse(@)],
            Emit(self, <<"Modifying ", str(Len(w.items)), " collected items">>, {}),
            None, {})

PytestHooksPlugin_pytest_collection_modifyitems(self, w, session, config, items) ==
    Outcome("pytest_collection_modifyitems", <<session, config, items>>, self, w,
            Emit(self, <<"Modifying ", str(Len(w.items)), " collected items">>, {}),
            None, {})

PytestHooksPlugin_pytest_collection_finish(self, w, session) ==
    Outcome("pytest_collection_finish", <<session>>, self, w,
            Emit(self, <<"Collection finished">>, {}), None, {})

PytestHooksPlugin_pytest_itemcollected(self, w, item) ==
    Outcome("pytest_itemcollected", <<item>>, self, w,
            Emit(self, <<"Item collected: ", nodeid_of(w, item)>>, {item}),
            None, {})

----------------------------------------------------------------------------
(* Test execution hooks *)

\* variant: claims the protocol (returns True) when verbose
Protocol_TrueWhenVerbose(self, w, item, nextitem) ==
    Outcome("pytest_runtest_protocol", <<item, nextitem>>, self, w,
            Emit(self, <<"Running test protocol: ", nodeid_of(w, item)>>, {item}),
            IF self.allow_hook_verbose THEN "True" ELSE None, {})

PytestHooksPlugin_pytest_runtest_protocol(self, w, item, nextitem) ==
    Outcome("pytest_runtest_protocol", <<item, nextitem>>, self, w,
            Emit(self, <<"Running test protocol: ", nodeid_of(w, item)>>, {item}),
            None, {})

PytestHooksPlugin_pytest_runtest_logstart(self, w, nodeid, location) ==
    Outcome("pytest_runtest_logstart", <<nodeid, location>>, self, w,
            Emit(self, <<"Test log start: ", nodeid, " - ", location>>, {}),
            None, {})

PytestHooksPlugin_pytest_runtest_logfinish(self, w, nodeid, location) ==
    Outcome("pytest_runtest_logfinish", <<nodeid, location>>, self, w,
            Emit(self, <<"Test log finish: ", nodeid>>, {}),
            None, {})

PytestHooksPlugin_pytest_runtest_setup(self, w, item) ==
    Outcome("pytest_runtest_setup", <<item>>, self, w,
            Emit(self, <<"Test setup: ", nodeid_of(w, item)>>, {item}),
            None, {})

PytestHooksPlugin_pytest_runtest_call(self, w, item) ==
    Outcome("pytest_runtest_call", <<item>>, self, w,
            Emit(self, <<"Test call: ", nodeid_of(w, item)>>, {item}),
            None, {})

\* variant: the line also names the next item
Teardown_NamesNextItem(self, w, item, nextitem) ==
    Outcome("pytest_runtest_teardown", <<item, nextitem>>, self, w,
            Emit(self, <<"Test teardown: ", nodeid_of(w, item), " -> ",
                         nodeid_of(w, nextitem)>>, {item, nextitem}),
            None, {})

PytestHooksPlugin_pytest_runtest_teardown(self, w, item, nextitem) ==
    Outcome("pytest_runtest_teardown", <<item, nextitem>>, self, w,
            Emit(self, <<"Test teardown: ", nodeid_of(w, item)>>, {item}),
            None, {})

PytestHooksPlugin_pytest_runtest_makereport(self, w, item, callinfo) ==
    Outcome("pytest_runtest_makereport", <<item, callinfo>>, self, w,
            Emit(self, <<"Making report: ", nodeid_of(w, item), " - ", callinfo>>,
                 {item, callinfo}),
            None, {})

----------------------------------------------------------------------------
(* Fixture hooks *)

PytestHooksPlugin_pytest_fixture_setup(self, w, fixturedef, request) ==
    Outcome("pytest_fixture_setup", <<fixturedef, request>>, self, w,
            Emit(self, <<"Fixture setup: ", fixturedef>>, {fixturedef}),
            None, {})

PytestHooksPlugin_pytest_fixture_post_finalizer(self, w, fixturedef, request) ==
    Outcome("pytest_fixture_post_finalizer", <<fixturedef, request>>, self, w,
            Emit(self, <<"Fixture post finalizer: ", fixturedef>>, {fixturedef}),
            None, {})

----------------------------------------------------------------------------
(* Reporting hooks *)

PytestHooksPlugin_pytest_report_header(self, w, config, start_path) ==
    Outcome("pytest_report_header", <<config, start_path>>, self, w,
            Silent, None, {})

PytestHooksPlugin_pytest_report_collectionfinish(self, w, config, start_path, items) ==
    Outcome("pytest_report_collectionfinish", <<config, start_path, items>>,
            self, w, Silent, None, {})

PytestHooksPlugin_pytest_report_teststatus(self, w, report, config) ==
    Outcome("pytest_report_teststatus", <<report, config>>, self, w,
            Emit(self, <<"Test status: ", w.report[report].nodeid, " - ",
                         w.report[report].outcome>>, {report}),
            None, {})

PytestHooksPlugin_pytest_terminal_summary(self, w, terminalreporter, exitstatus, config) ==
    Outcome("pytest_terminal_summary", <<terminalreporter, exitstatus, config>>,
            self, w, Emit(self, <<"Pytest Terminal Summary">>, {}), None, {})

PytestHooksPlugin_pytest_runtest_logreport(self, w, report) ==
    Outcome("pytest_runtest_logreport", <<report>>, self, w,
            Emit(self, <<"Log report: ", w.report[report].nodeid, " - ",
                         w.report[report].when, " - ",
                         w.report[report].outcome>>, {report}),
            None, {})

----------------------------------------------------------------------------
(* Error and warning hooks *)

PytestHooksPlugin_pytest_warning_recorded(self, w, warning_message, when, nodeid, location) ==
    Outcome("pytest_warning_recorded", <<warning_message, when, nodeid, location>>,
            self, w,
            Emit(self, <<"Warning recorded: ", warning_message>>, {warning_message}),
            None, {})

PytestHooksPlugin_pytest_exception_interact(self, w, node, callinfo, report) ==
    Outcome("pytest_exception_interact", <<node, callinfo, report>>, self, w,
            Emit(self, <<"Exception interact: ", nodeid_of(w, node)>>, {node}),
            None, {})

PytestHooksPlugin_pytest_internalerror(self, w, excrepr, excinfo) ==
    Outcome("pytest_internalerror", <<excrepr, excinfo>>, self, w,
            Emit(self, <<"Internal error: ", excrepr>>, {}),
            None, {})

----------------------------------------------------------------------------
(* The remaining argument domains *)

ParserRefs == {"parser"}
ConfigRefs == {"config"}
CollectorRefs == {"collector"}
ItemListRefs == {"items"}
RequestRefs == {"request"}
StartPaths == {"rootdir"}
ReporterRefs == {"terminalreporter"}
WarningMessages == {"DeprecationWarning"}
WarningWhens == {"runtest"}
ExcReprs == {"excrepr"}
ExcInfos == {"excinfo"}
\* Optional[Item]
OptionalItemIds == ItemIds \cup {None}

\* the sequences over S of length at most n
RECURSIVE SeqsUpTo(_, _)
SeqsUpTo(S, n) ==
    IF n = 0 THEN {<<>>}
    ELSE LET shorter == SeqsUpTo(S, n - 1)
         IN  shorter \cup {Append(s, x) : s \in {t \in shorter : Len(t) = n - 1}, x \in S}

\* the framework objects a run hands to the hooks
Worlds ==
    { [parser |-> {},
       config |-> [myoption |-> v],
       session |-> [s \in SessionIds |-> [name |-> s]],
       item |-> [i \in ItemIds |-> [nodeid |-> IF i = "item_a"
                                               THEN "tests/test_x.py::test_a"
                                               ELSE "tests/test_x.py::test_b"]],
       items |-> l,
       report |-> [r \in ReportIds |->
                     IF r = "report_1"
                     THEN [nodeid |-> "tests/test_x.py::test_a", when |-> "call",
                           outcome |-> "passed"]
                     ELSE [nodeid |-> "tests/test_x.py::test_b", when |-> "setup",
                           outcome |-> "failed"]]]
      : v \in {"myoption_default", "cli_value"}, l \in SeqsUpTo(ItemIds, MaxItems) }

----------------------------------------------------------------------------
(* The shared instance and the module-level hook functions (lines 158-188) *)

NoCall ==
    [fn |-> "none", fnargs |-> <<>>, method |-> "none", margs |-> <<>>,
     ret |-> None, fnret |-> None, out |-> <<>>, raised |-> FALSE,
     readFlag |-> FALSE, twin_ret |-> None, twin_out |-> <<>>,
     twin_raised |-> FALSE]

\* `def fn(args): return pytest_hooks_plugin.method(args)`: r is the outcome
\* of the method call the function makes on the shared instance, t the
\* outcome of the same call on the twin instance.
Forward(fn, fnargs, r, t) ==
    /\ pytest_hooks_plugin' = r.self
    /\ world' = r.world
    /\ twin' = t.self
    /\ twin_world' = t.world
    /\ consumed' = consumed \cup r.optreads
    /\ call' = [fn |-> fn, fnargs |-> fnargs,
                method |-> r.method, margs |-> r.args,
                ret |-> r.ret, fnret |-> r.ret,
                out |-> r.out, raised |-> r.raised, readFlag |-> r.readFlag,
                twin_ret |-> t.ret, twin_out |-> t.out,
                twin_raised |-> t.raised]
    /\ UNCHANGED <<constructed, registry, pre_registry, reg_phase>>

pytest_addoption ==
    \E parser \in ParserRefs :
        Forward("pytest_addoption", <<parser>>,
                PytestHooksPlugin_pytest_addoption(pytest_hooks_plugin, world, parser),
                PytestHooksPlugin_pytest_addoption(twin, twin_world, parser))

pytest_configure ==
    \E config \in ConfigRefs :
        Forward("pytest_configure", <<config>>,
                PytestHooksPlugin_pytest_configure(pytest_hooks_plugin, world, config),
                PytestHooksPlugin_pytest_configure(twin, twin_world, config))

pytest_unconfigure ==
    \E config \in ConfigRefs :
        Forward("pytest_unconfigure", <<config>>,
                PytestHooksPlugin_pytest_unconfigure(pytest_hooks_plugin, world, config),
                PytestHooksPlugin_pytest_unconfigure(twin, twin_world, config))

pytest_sessionstart ==
    \E session \in SessionIds :
        Forward("pytest_sessionstart", <<session>>,
                PytestHooksPlugin_pytest_sessionstart(pytest_hooks_plugin, world, session),
                PytestHooksPlugin_pytest_sessionstart(twin, twin_world, session))

pytest_sessionfinish ==
    \E session \in SessionIds, exitstatus \in ExitStatuses :
        Forward("pytest_sessionfinish", <<session, exitstatus>>,
                PytestHooksPlugin_pytest_sessionfinish(pytest_hooks_plugin, world, session, exitstatus),
                PytestHooksPlugin_pytest_sessionfinish(twin, twin_world, session, exitstatus))

pytest_collect_file ==
    \E file_path \in FilePaths, parent \in CollectorRefs :
        Forward("pytest_collect_file", <<file_path, parent>>,
                PytestHooksPlugin_pytest_collect_file(pytest_hooks_plugin, world, file_path, parent),
                PytestHooksPlugin_pytest_collect_file(twin, twin_world, file_path, parent))

pytest_generate_tests ==
    \E metafunc \in FunctionNames :
        Forward("pytest_generate_tests", <<metafunc>>,
                PytestHooksPlugin_pytest_generate_tests(pytest_hooks_plugin, world, metafunc),
                PytestHooksPlugin_pytest_generate_tests(twin, twin_world, metafunc))

pytest_collection_modifyitems ==
    \E session \in SessionIds, config \in ConfigRefs, items \in ItemListRefs :
        Forward("pytest_collection_modifyitems", <<session, config, items>>,
                PytestHooksPlugin_pytest_collection_modifyitems(pytest_hooks_plugin, world, session, config, items),
                PytestHooksPlugin_pytest_collection_modifyitems(twin, twin_world, session, config, items))

pytest_collection_finish ==
    \E session \in SessionIds :
        Forward("pytest_collection_finish", <<session>>,
                PytestHooksPlugin_pytest_collection_finish(pytest_hooks_plugin, world, session),
                PytestHooksPlugin_pytest_collection_finish(twin, twin_world, session))

pytest_itemcollected ==
    \E item \in ItemIds :
        Forward("pytest_itemcollected", <<item>>,
                PytestHooksPlugin_pytest_itemcollected(pytest_hooks_plugin, world, item),
                PytestHooksPlugin_pytest_itemcollected(twin, twin_world, item))

pytest_runtest_protocol ==
    \E item \in ItemIds, nextitem \in OptionalItemIds :
        Forward("pytest_runtest_protocol", <<item, nextitem>>,
                PytestHooksPlugin_pytest_runtest_protocol(pytest_hooks_plugin, world, item, nextitem),
                PytestHooksPlugin_pytest_runtest_protocol(twin, twin_world, item, nextitem))

pytest_runtest_logstart ==
    \E nodeid \in NodeIdStrs, location \in Locations :
        Forward("pytest_runtest_logstart", <<nodeid, location>>,
                PytestHooksPlugin_pytest_runtest_logstart(pytest_hooks_plugin, world, nodeid, location),
                PytestHooksPlugin_pytest_runtest_logstart(twin, twin_world, nodeid, location))

\* variant: forwards to the log-start method
LogFinish_ForwardsToLogStart ==
    \E nodeid \in NodeIdStrs, location \in Locations :
        Forward("pytest_runtest_logfinish", <<nodeid, location>>,
                PytestHooksPlugin_pytest_runtest_logstart(pytest_hooks_plugin, world, nodeid, location),
                PytestHooksPlugin_pytest_runtest_logstart(twin, twin_world, nodeid, location))

pytest_runtest_logfinish ==
    \E nodeid \in NodeIdStrs, location \in Locations :
        Forward("pytest_runtest_logfinish", <<nodeid, location>>,
                PytestHooksPlugin_pytest_runtest_logfinish(pytest_hooks_plugin, world, nodeid, location),
                PytestHooksPlugin_pytest_runtest_logfinish(twin, twin_world, nodeid, location))

pytest_runtest_setup ==
    \E item \in ItemIds :
        Forward("pytest_runtest_setup", <<item>>,
                PytestHooksPlugin_pytest_runtest_setup(pytest_hooks_plugin, world, item),
                PytestHooksPlugin_pytest_runtest_setup(twin, twin_world, item))

pytest_runtest_call ==
    \E item \in ItemIds :
        Forward("pytest_runtest_call", <<item>>,
                PytestHooksPlugin_pytest_runtest_call(pytest_hooks_plugin, world, item),
                PytestHooksPlugin_pytest_runtest_call(twin, twin_world, item))

pytest_runtest_teardown ==
    \E item \in ItemIds, nextitem \in OptionalItemIds :
        Forward("pytest_runtest_teardown", <<item, nextitem>>,
                PytestHooksPlugin_pytest_runtest_teardown(pytest_hooks_plugin, world, item, nextitem),
                PytestHooksPlugin_pytest_runtest_teardown(twin, twin_world, item, nextitem))

pytest_runtest_makereport ==
    \E item \in ItemIds, callinfo \in Whens :
        Forward("pytest_runtest_makereport", <<item, callinfo>>,
                PytestHooksPlugin_pytest_runtest_makereport(pytest_hooks_plugin, world, item, callinfo),
                PytestHooksPlugin_pytest_runtest_makereport(twin, twin_world, item, callinfo))

pytest_fixture_setup ==
    \E fixturedef \in FixtureNames, request \in RequestRefs :
        Forward("pytest_fixture_setup", <<fixturedef, request>>,
                PytestHooksPlugin_pytest_fixture_setup(pytest_hooks_plugin, world, fixturedef, request),
                PytestHooksPlugin_pytest_fixture_setup(twin, twin_world, fixturedef, request))

pytest_fixture_post_finalizer ==
    \E fixturedef \in FixtureNames, request \in RequestRefs :
        Forward("pytest_fixture_post_finalizer", <<fixturedef, request>>,
                PytestHooksPlugin_pytest_fixture_post_finalizer(pytest_hooks_plugin, world, fixturedef, request),
                PytestHooksPlugin_pytest_fixture_post_finalizer(twin, twin_world, fixturedef, request))

pytest_report_header ==
    \E config \in ConfigRefs, start_path \in StartPaths :
        Forward("pytest_report_header", <<config, start_path>>,
                PytestHooksPlugin_pytest_report_header(pytest_hooks_plugin, world, config, start_path),
                PytestHooksPlugin_pytest_report_header(twin, twin_world, config, start_path))

pytest_report_collectionfinish ==
    \E config \in ConfigRefs, start_path \in StartPaths, items \in ItemListRefs :
        Forward("pytest_report_collectionfinish", <<config, start_path, items>>,
                PytestHooksPlugin_pytest_report_collectionfinish(pytest_hooks_plugin, world, config, start_path, items),
                PytestHooksPlugin_pytest_report_collectionfinish(twin, twin_world, config, start_path, items))

pytest_report_teststatus ==
    \E report \in ReportIds, config \in ConfigRefs :
        Forward("pytest_report_teststatus", <<report, config>>,
                PytestHooksPlugin_pytest_report_teststatus(pytest_hooks_plugin, world, report, config),
                PytestHooksPlugin_pytest_report_teststatus(twin, twin_world, report, config))

pytest_terminal_summary ==
    \E terminalreporter \in ReporterRefs, exitstatus \in ExitStatuses, config \in ConfigRefs :
        Forward("pytest_terminal_summary", <<terminalreporter, exitstatus, config>>,
                PytestHooksPlugin_pytest_terminal_summary(pytest_hooks_plugin, world, terminalreporter, exitstatus, config),
                PytestHooksPlugin_pytest_terminal_summary(twin, twin_world, terminalreporter, exitstatus, config))

pytest_runtest_logreport ==
    \E report \in ReportIds :
        Forward("pytest_runtest_logreport", <<report>>,
                PytestHooksPlugin_pytest_runtest_logreport(pytest_hooks_plugin, world, report),
                PytestHooksPlugin_pytest_runtest_logreport(twin, twin_world, report))

pytest_warning_recorded ==
    \E warning_message \in WarningMessages, when \in WarningWhens, nodeid \in NodeIdStrs, location \in Locations :
        Forward("pytest_warning_recorded", <<warning_message, when, nodeid, location>>,
                PytestHooksPlugin_pytest_warning_recorded(pytest_hooks_plugin, world, warning_message, when, nodeid, location),
                PytestHooksPlugin_pytest_warning_recorded(twin, twin_world, warning_message, when, nodeid, location))

pytest_exception_interact ==
    \E node \in ItemIds, callinfo \in Whens, report \in ReportIds :
        Forward("pytest_exception_interact", <<node, callinfo, report>>,
                PytestHooksPlugin_pytest_exception_interact(pytest_hooks_plugin, world, node, callinfo, report),
                PytestHooksPlugin_pytest_exception_interact(twin, twin_world, node, callinfo, report))

pytest_internalerror ==
    \E excrepr \in ExcReprs, excinfo \in ExcInfos :
        Forward("pytest_internalerror", <<excrepr, excinfo>>,
                PytestHooksPlugin_pytest_internalerror(pytest_hooks_plugin, world, excrepr, excinfo),
                PytestHooksPlugin_pytest_internalerror(twin, twin_world, excrepr, excinfo))

----------------------------------------------------------------------------
(* Registration with the host plugin manager *)

\* the fixed name the adapter is registered under
PluginName == "pytest_hooks_plugin"

\* pluginmanager.get_plugin(name)
get_plugin(name) == IF name \in DOMAIN registry THEN registry[name] ELSE None

pluginmanager_register ==
    /\ PluginName \notin DOMAIN registry
    /\ pre_registry' = registry
    /\ registry' = SetAttr(registry, PluginName, "PytestHooksPlugin instance")
    /\ reg_phase' = "registered"
    /\ UNCHANGED <<pytest_hooks_plugin, twin, world, twin_world, call, consumed,
                   constructed>>

\* variant: empties the registry
Unregister_ClearsAll ==
    /\ PluginName \in DOMAIN registry
    /\ registry' = [n \in {} |-> "host plugin"]
    /\ reg_phase' = "unregistered"
    /\ UNCHANGED <<pytest_hooks_plugin, twin, world, twin_world, call, consumed,
                   constructed, pre_registry>>

pluginmanager_unregister ==
    /\ PluginName \in DOMAIN registry
    /\ registry' = [n \in DOMAIN registry \ {PluginName} |-> registry[n]]
    /\ reg_phase' = "unregistered"
    /\ UNCHANGED <<pytest_hooks_plugin, twin, world, twin_world, call, consumed,
                   constructed, pre_registry>>

----------------------------------------------------------------------------
(* Specification *)

HostPlugins == {"terminal"}

\* Line 18 sets allow_hook_verbose to False and nothing in the module assigns
\* it again; it is the switch a user of the template flips in the source.
\* Both settings are initial states, so that the print branches are covered.
Init ==
    \E verbose \in BOOLEAN, w \in Worlds, host \in SUBSET HostPlugins :
        /\ pytest_hooks_plugin = PytestHooksPlugin_init(verbose)
        /\ twin = PytestHooksPlugin_init(~verbose)
        /\ constructed = PytestHooksPlugin_init(verbose)
        /\ world = w
        /\ twin_world = w
        /\ call = NoCall
        /\ consumed = {}
        /\ registry = [n \in host |-> "host plugin"]
        /\ pre_registry = [n \in host |-> "host plugin"]
        /\ reg_phase = "never"

Next ==

    \/ pytest_addoption
    \/ pytest_configure
    \/ pytest_unconfigure
    \/ pytest_sessionstart
    \/ pytest_sessionfinish
    \/ pytest_collect_file
    \/ pytest_generate_tests
    \/ pytest_collection_modifyitems
    \/ pytest_collection_finish
    \/ pytest_itemcollected
    \/ pytest_runtest_protocol
    \/ pytest_runtest_logstart
    \/ pytest_runtest_logfinish
    \/ pytest_runtest_setup
    \/ pytest_runtest_call
    \/ pytest_runtest_teardown
    \/ pytest_runtest_makereport
    \/ pytest_fixture_setup
    \/ pytest_fixture_post_finalizer
    \/ pytest_report_header
    \/ pytest_report_collectionfinish
    \/ pytest_report_teststatus
    \/ pytest_terminal_summary
    \/ pytest_runtest_logreport
    \/ pytest_warning_recorded
    \/ pytest_exception_interact
    \/ pytest_internalerror

Spec == Init /\ [][Next]_vars

\* the host registering and unregistering the adapter around a run
RegistryNext ==
    \/ pluginmanager_register
    \/ pluginmanager_unregister
    \/ pytest_configure
    \/ pytest_sessionstart
    \/ pytest_sessionfinish
    \/ pytest_unconfigure

RegistrySpec == Init /\ [][RegistryNext]_vars

----------------------------------------------------------------------------
(* Names declared in the source *)

\* the methods of class PytestHooksPlugin (lines 24-155)
HandlerNames ==
    { "pytest_addoption", "pytest_configure", "pytest_unconfigure",
      "pytest_sessionstart", "pytest_sessionfinish",
      "pytest_collect_file", "pytest_generate_tests",
      "pytest_collection_modifyitems", "pytest_collection_finish",
      "pytest_itemcollected",
      "pytest_runtest_protocol", "pytest_runtest_logstart",
      "pytest_runtest_logfinish", "pytest_runtest_setup",
      "pytest_runtest_call", "pytest_runtest_teardown",
      "pytest_runtest_makereport",
      "pytest_fixture_setup", "pytest_fixture_post_finalizer",
      "pytest_report_header", "pytest_report_collectionfinish",
      "pytest_report_teststatus", "pytest_terminal_summary",
      "pytest_runtest_logreport",
      "pytest_warning_recorded", "pytest_exception_interact",
      "pytest_internalerror" }

\* the module-level functions, in the order of lines 162-188
ModuleHookNames ==
    { "pytest_addoption", "pytest_configure", "pytest_unconfigure",
      "pytest_sessionstart", "pytest_sessionfinish", "pytest_collect_file",
      "pytest_generate_tests", "pytest_collection_modifyitems",
      "pytest_collection_finish", "pytest_itemcollected",
      "pytest_runtest_protocol", "pytest_runtest_logstart",
      "pytest_runtest_logfinish", "pytest_runtest_setup",
      "pytest_runtest_call", "pytest_runtest_teardown",
      "pytest_runtest_makereport", "pytest_fixture_setup",
      "pytest_fixture_post_finalizer", "pytest_report_header",
      "pytest_report_collectionfinish", "pytest_report_teststatus",
      "pytest_terminal_summary", "pytest_runtest_logreport",
      "pytest_warning_recorded", "pytest_exception_interact",
      "pytest_internalerror" }

----------------------------------------------------------------------------
(* Properties *)

Invoked == call.fn # "none"
Verbose == pytest_hooks_plugin.allow_hook_verbose
Printed == Len(call.out) = 1

\* the attributes of an instance other than the verbosity flag
WithoutFlag(self) ==
    [a \in DOMAIN self \ {"allow_hook_verbose"} |-> self[a]]

\* a file name that ends in ".py" after at least one other character
EndsInDotPy(name) ==
    /\ Len(name) > 3
    /\ name[Len(name) - 2] = "."
    /\ name[Len(name) - 1] = "p"
    /\ name[Len(name)] = "y"

C2_FlagChangesOnlyOutput ==
    /\ twin.allow_hook_verbose # pytest_hooks_plugin.allow_hook_verbose
    /\ call.twin_ret = call.ret
    /\ WithoutFlag(twin) = WithoutFlag(pytest_hooks_plugin)
    /\ twin_world = world

\* the two runs differ in what they printed, after a session was stored and
\* an option registered
C2_Witness ==
    /\ Invoked
    /\ Len(call.out) # Len(call.twin_out)
    /\ "session" \in DOMAIN pytest_hooks_plugin
    /\ MyOption \in world.parser

\* C3 as stated: no handler changes any object passed to it.
C3_NoHandlerMutatesArguments ==
    [][world' = world]_vars

\* C3 amended: pytest_addoption adds --myoption to the parser it receives;
\* no other handler changes any object passed to it.
C3_OnlyAddoptionMutates ==
    [][ \/ world' = world
        \/ /\ call'.method = "pytest_addoption"
           /\ world' = [world EXCEPT !.parser = @ \cup {MyOption}] ]_vars

\* pytest_collection_modifyitems ran on a full item list after the option
\* was registered
C3_Witness ==
    /\ call.method = "pytest_collection_modifyitems"
    /\ Len(world.items) = MaxItems
    /\ world.items[1] # world.items[MaxItems]
    /\ MyOption \in world.parser

\* C4 as stated: the instance's attributes and their values stay as
\* constructed.
C4_StateAsConstructed ==
    pytest_hooks_plugin = constructed

\* C4 amended: the flag and the helper reference stay as constructed, the
\* only other attribute is session, and only pytest_sessionstart changes the
\* instance, by storing the session it received.
C4_OnlySessionIsAdded ==
    /\ [](/\ DOMAIN pytest_hooks_plugin \subseteq DOMAIN constructed \cup {"session"}
          /\ \A a \in DOMAIN constructed :
                /\ a \in DOMAIN pytest_hooks_plugin
                /\ pytest_hooks_plugin[a] = constructed[a])
    /\ [][ \/ pytest_hooks_plugin' = pytest_hooks_plugin
           \/ /\ call'.method = "pytest_sessionstart"
              /\ pytest_hooks_plugin' =
                    SetAttr(pytest_hooks_plugin, "session", call'.margs[1]) ]_vars

\* the second session is stored and a later handler has run
C4_Witness ==
    /\ "session" \in DOMAIN pytest_hooks_plugin
    /\ pytest_hooks_plugin["session"] = "session_2"
    /\ call.method = "pytest_configure"

\* C5: pytest_sessionfinish returns None without raising for every exit
\* status, and prints a line exactly when the flag is on.
C5_SessionFinish ==
    call.method = "pytest_sessionfinish" =>
        /\ call.ret = None
        /\ ~call.raised
        /\ Printed <=> Verbose
        /\ Printed => call.out[1][2] = ToString(call.margs[2])

\* a verbose session finish with exit status 0
C5_Witness ==
    /\ call.method = "pytest_sessionfinish"
    /\ call.margs[2] = 0
    /\ Verbose
    /\ Printed

\* C6: once the adapter has been registered and unregistered, the registry
\* is as it was before the registration and the name resolves to nothing.
C6_RegisterUnregister ==
    reg_phase = "unregistered" =>
        /\ registry = pre_registry
        /\ PluginName \notin DOMAIN registry
        /\ get_plugin(PluginName) = None

\* registered and unregistered next to a host plugin
C6_Witness ==
    /\ reg_phase = "unregistered"
    /\ "terminal" \in DOMAIN registry

\* C7 as stated: pytest_addoption registers a flag and a string option, and
\* no handler reads either value.
C7_FlagAndStringOption ==
    /\ consumed = {}
    /\ call.method = "pytest_addoption" =>
          /\ \E o \in world.parser : o.action = "store_true"
          /\ \E o \in world.parser : o.action = "store"

\* C7 amended: pytest_addoption registers one string option, --myoption
\* with default "myoption_default", and no flag; no handler reads its value.
C7_OneStringOption ==
    /\ consumed = {}
    /\ \A o \in world.parser :
          /\ o.name = "--myoption"
          /\ o.action = "store"
          /\ o.default = "myoption_default"
    /\ call.method = "pytest_addoption" => Cardinality(world.parser) = 1

\* the option was registered, the command line set it, and pytest_configure
\* ran
C7_Witness ==
    /\ Cardinality(world.parser) = 1
    /\ world.config.myoption = "cli_value"
    /\ call.method = "pytest_configure"

\* C8 as stated: the flag keeps its constructed value and every handler
\* reads it.
C8_EveryHandlerReadsFlag ==
    /\ Verbose = constructed.allow_hook_verbose
    /\ Invoked => call.readFlag

\* the handlers whose body has no print statement
NonPrinting ==
    {"pytest_addoption", "pytest_report_header", "pytest_report_collectionfinish"}

\* C8 amended: the flag keeps its constructed value; a handler reads it
\* unless it is one of the three without a print statement, or it is
\* pytest_collect_file on a path whose suffix is not ".py"; a line is
\* printed only when the flag was read and is on.
C8_FlagReadOnlyAndGating ==
    /\ Verbose = constructed.allow_hook_verbose
    /\ Invoked =>
          /\ call.readFlag <=>
                /\ call.method \notin NonPrinting
                /\ call.method = "pytest_collect_file" => EndsInDotPy(call.margs[1][2])
          /\ Printed => call.readFlag /\ Verbose

\* pytest_report_header stayed silent, without reading the flag, while the
\* flag was on
C8_Witness ==
    /\ call.method = "pytest_report_header"
    /\ Verbose
    /\ ~Printed
    /\ ~call.readFlag

\* C9: the module-level functions are named as the class's methods, and
\* each calls the method of its own name on the shared instance with its
\* own arguments in order and returns the method's result.
C9_ModuleHooksForward ==
    /\ ModuleHookNames = HandlerNames
    /\ Invoked =>
          /\ call.fn \in ModuleHookNames
          /\ call.method = call.fn
          /\ call.margs = call.fnargs
          /\ call.fnret = call.ret

\* a verbose log-finish call was forwarded
C9_Witness ==
    /\ call.fn = "pytest_runtest_logfinish"
    /\ Len(call.fnargs) = 2
    /\ Verbose
    /\ Printed

\* C10: pytest_collect_file prints exactly when the flag is on and the
\* file name's suffix is ".py", and returns None for every path.
C10_CollectFile ==
    call.method = "pytest_collect_file" =>
        /\ call.ret = None
        /\ Printed <=> (Verbose /\ EndsInDotPy(call.margs[1][2]))

\* a verbose call on a file named "apy" inside a directory named pkg.py
C10_Witness ==
    /\ call.method = "pytest_collect_file"
    /\ call.margs[1] = <<"pkg.py", <<"a", "p", "y">>>>
    /\ Verbose
    /\ ~Printed

====
